---- MODULE Spec2Model ----
(***************************************************************************)
(* Model of src/src/utils/gumloopUtil.js: the Gumloop job client.          *)
(*   getFlowRunDetails        one GET of a run's status                    *)
(*   pollFlowRunUntilComplete the polling loop with its deadline           *)
(*   startGumloopFlow         one POST that starts a run                   *)
(*   startAndWaitForFlow      start, then poll                             *)
(* Time is a global millisecond clock `now` (Date.now()).  A request in    *)
(* flight answers at any tick up to MaxLatency after it was issued, a      *)
(* timer set by setTimeout(resolve, d) fires at any tick from d to         *)
(* d + MaxJitter after it was armed.  Every call of the client has its    *)
(* own record in `call`; the remote service hands out run ids.             *)
(***************************************************************************)
EXTENDS Integers, Sequences, FiniteSets, TLC

VARIABLES now, call, nextRun, callers, redis, upload, lookup

vars == <<now, call, nextRun, callers, redis, upload, lookup>>

(* ------------------------------ bounds -------------------------------- *)
MaxTimeout == 3
MaxInterval == 2
MaxLatency == 1
MaxJitter == 1
HistLen == 3
\* a poller whose interval is positive issues at most MaxTimeout + 2 fetches;
\* the cap only stops the zero-interval loop that never lets the clock move
MaxFetches == MaxTimeout + 3

Calls == {1, 2}

(* --------------------------- remote payloads --------------------------- *)
Undefined == "undefined"
NoRun == 0

\* run states the remote service may report; "QUEUED" stands for any string
\* the client does not know, Undefined for a body without a state field
KnownStates == {"PENDING", "RUNNING", "DONE", "FAILED", "TERMINATED"}
RunStates == KnownStates \cup {"QUEUED", Undefined}

\* a parsed JSON body: null, or an object with (optional) state and run_id
NullBody == [isNull |-> TRUE, state |-> Undefined, run_id |-> NoRun]
NoBody == [isNull |-> FALSE, state |-> Undefined, run_id |-> NoRun]
StatusBody(s, rid) == [isNull |-> FALSE, state |-> s, run_id |-> rid]
StartBody(rid) == [isNull |-> FALSE, state |-> Undefined, run_id |-> rid]

\* what node-fetch hands back: the promise rejects (net = "reject"), or a
\* response with a status whose body is JSON (json = TRUE) or not
Rejected == [net |-> "reject", status |-> "0", json |-> FALSE, body |-> NoBody]
HttpFailure(st) == [net |-> "ok", status |-> st, json |-> FALSE, body |-> NoBody]
NotJson == [net |-> "ok", status |-> "200", json |-> FALSE, body |-> NoBody]
Json(b) == [net |-> "ok", status |-> "200", json |-> TRUE, body |-> b]
\* no response received yet
NoResp == [net |-> "none", status |-> "0", json |-> FALSE, body |-> NoBody]

StatusResponses(rid) ==
    {Rejected, HttpFailure("404"), HttpFailure("500"), NotJson, Json(NullBody)}
        \cup {Json(StatusBody(s, rid)) : s \in RunStates}

StartResponses(rid) ==
    {Rejected, HttpFailure("500"), NotJson, Json(NullBody),
     Json(StartBody(NoRun)), Json(StartBody(rid))}

(* ------------------------------- errors -------------------------------- *)
NoError == [kind |-> "none", detail |-> ""]
Err(k, d) == [kind |-> k, detail |-> d]

\* response.ok of node-fetch: status in 200..299
ResponseOk(resp) == resp.status = "200"

\* the shared body of getFlowRunDetails and startGumloopFlow after `await
\* fetch(...)`: throw on a rejected fetch, throw "HTTP error! status: N" when
\* !response.ok, else response.json() (which rejects on a non-JSON body)
ParseResponse(resp) ==
    IF resp.net = "reject"
        THEN [threw |-> TRUE, error |-> Err("FetchError", "network"), value |-> NoBody]
    ELSE IF ~ResponseOk(resp)
        THEN [threw |-> TRUE, error |-> Err("HttpError", resp.status), value |-> NoBody]
    ELSE IF ~resp.json
        THEN [threw |-> TRUE, error |-> Err("FetchError", "invalid-json"), value |-> NoBody]
    ELSE [threw |-> FALSE, error |-> NoError, value |-> resp.body]

getFlowRunDetails(resp) == ParseResponse(resp)

\* `return response` instead of `return response.json()`
startGumloopFlow_NoJson(resp) ==
    IF ParseResponse(resp).threw THEN ParseResponse(resp)
    ELSE [ParseResponse(resp) EXCEPT !.value = NoBody]

startGumloopFlow(resp) == ParseResponse(resp)

IsDone_NotRunning(rd) == rd.state \notin {"PENDING", "RUNNING", "FAILED", "TERMINATED"}

\* runDetails.state === "DONE"
IsDone(rd) == rd.state = "DONE"

IsFailedState_OnlyFailed(rd) == rd.state = "FAILED"

IsFailedState_Unknown(rd) == rd.state \notin {"PENDING", "RUNNING", "DONE"}

\* ["FAILED", "TERMINATED"].includes(runDetails.state)
IsFailedState(rd) == rd.state \in {"FAILED", "TERMINATED"}

TimeoutExceeded_AtDeadline(elapsed, timeoutMs) == elapsed >= timeoutMs

\* Date.now() - startTime > timeoutMs
TimeoutExceeded(elapsed, timeoutMs) == elapsed > timeoutMs

TimerDue_NoWait(armedAt, pollingIntervalMs) == armedAt

\* setTimeout(resolve, pollingIntervalMs): earliest tick the timer may fire
TimerDue(armedAt, pollingIntervalMs) == armedAt + pollingIntervalMs

(* ---------------------------- the route cache -------------------------- *)
\* src/src/routes/openapi.js (and its earlier revision src/unnamed/part_001):
\* the uploaded specification's paths are written to Redis, one key per path
\* and an index under 'all_paths'; GET /paths reads one path's entry and
\* sends it to the job processor.
Paths == {"/a", "/b"}
Uploads == {1, 2}

\* `path:${path}`
PathKey(p) == "path:" \o p
IndexKey == "all_paths"
RedisKeys == {PathKey(p) : p \in Paths} \cup {IndexKey}

\* a Redis value: absent, the JSON of a pathInfo (info: which upload wrote
\* it) or the JSON of a list of paths
Nil == [present |-> FALSE, info |-> 0, list |-> <<>>]
PathValue(u) == [present |-> TRUE, info |-> u, list |-> <<>>]
IndexValue(keys) == [present |-> TRUE, info |-> 0, list |-> keys]

\* Object.keys(api.paths) of a dereferenced document, in insertion order;
\* hasPaths is FALSE for a document without a `paths` member
KeyLists == {<<>>, <<"/a">>, <<"/b">>, <<"/a", "/b">>, <<"/b", "/a">>}
Docs == {[hasPaths |-> FALSE, keys |-> <<>>]} \cup {[hasPaths |-> TRUE, keys |-> k] : k \in KeyLists}

IdleUpload ==
    [pc |-> "idle", route |-> "none", doc |-> [hasPaths |-> FALSE, keys |-> <<>>],
     idx |-> 0, status |-> 0, failedAt |-> 0]

StoreWrite_IndexFirst(u, keys, idx) ==
    IF idx = 1 THEN [key |-> IndexKey, value |-> IndexValue(keys)]
    ELSE [key |-> PathKey(keys[idx - 1]), value |-> PathValue(u)]

\* storePathsInRedis: the idx-th redisClient.set of the call, first one per
\* entry of Object.entries(paths), then the list of all paths
StoreWrite(u, keys, idx) ==
    IF idx <= Len(keys) THEN [key |-> PathKey(keys[idx]), value |-> PathValue(u)]
    ELSE [key |-> IndexKey, value |-> IndexValue(keys)]

\* GET /paths?path=...: req.query.path, Undefined for a request without it
QueryPaths == Paths \cup {Undefined}
Lookups == {1}

\* redisClient.get(key): the stored string, null for a key that was never set
RedisGet(key) == IF key \in RedisKeys THEN redis[key] ELSE Nil

\* `!pathInfo`: null (the empty string is never stored)
Falsy(value) == ~value.present

\* JSON.parse(pathInfo): the object whose text upload `info` has stored
JsonParse(text) == [type |-> "object", info |-> text.info]

\* JSON.stringify of a member value: the text of an object, or, for a value
\* that is itself a string, that string in quotes
JsonStringify(js) == [quoted |-> js.type = "string", text |-> PathValue(js.info)]

\* JSON.stringify({ path, data }): a member whose value is undefined is left out
InputValue(path, data) ==
    [hasPath |-> path # Undefined,
     path |-> IF path # Undefined THEN path ELSE "",
     data |-> JsonStringify(data)]

NoRequest == [flowType |-> "none", pipelineInputs |-> <<>>]

\* `data: pathInfo`, the stored string without JSON.parse
FlowStartBody_Unparsed(path, pathInfo) ==
    [flowType |-> "single-tool-raw",
     pipelineInputs |->
        <<[input_name |-> "input",
           value |-> InputValue(path, [type |-> "string", info |-> pathInfo.info])]>>]

\* the body of axios.post(`${pythonEndpoint}/api/flow-start`, ...)
FlowStartBody(path, pathInfo) ==
    [flowType |-> "single-tool-raw",
     pipelineInputs |->
        <<[input_name |-> "input", value |-> InputValue(path, JsonParse(pathInfo))]>>]

\* one GET /paths request: its locals, the downstream requests it has sent
\* and its answer; history: whether the key was set when the cache was read,
\* and how the read and the downstream request ended
IdleLookup ==
    [pc |-> "idle", path |-> Undefined, pathInfo |-> Nil,
     sent |-> 0, request |-> NoRequest, status |-> 0,
     cached |-> FALSE, read |-> "none", post |-> "none"]

(* ------------------------------ the calls ------------------------------ *)
IdleCall ==
    [pc |-> "idle", entry |-> "none",
     pollingIntervalMs |-> 0, timeoutMs |-> 0,
     startTime |-> 0, issuedAt |-> 0,
     launchCount |-> 0, fetchCount |-> 0,
     runId |-> NoRun, flowStart |-> NoBody, runDetails |-> NoBody,
     returned |-> [startDetails |-> NoBody, finalResult |-> NoBody],
     error |-> NoError,
     \* history: the statuses seen, the fetch that saw the first terminal
     \* status, the fetch that failed, the last response, the lateness of
     \* the current wait-and-fetch cycle (timer plus fetch), the end time
     observed |-> <<>>, firstTerminal |-> 0, failedFetch |-> 0,
     lastResp |-> Json(NoBody),
     slack |-> 0, endedAt |-> 0,
     \* the response to the start request, the error as first raised, the
     \* run id of the latest status request and of all of them, the number
     \* of requests in flight and of inter-poll timers pending
     startResp |-> NoResp, raised |-> NoError,
     reqRunId |-> NoRun, fetchIds |-> {},
     inflight |-> 0, timers |-> 0,
     \* the clock when the poller was entered
     enteredAt |-> 0]

\* one caller: call 1 is the only call ever made
Init ==
    /\ now = 0
    /\ call = [c \in Calls |-> IdleCall]
    /\ nextRun = 1
    /\ callers = {1}
    /\ redis = [k \in RedisKeys |-> Nil]
    /\ upload = [u \in Uploads |-> IdleUpload]
    /\ lookup = [g \in Lookups |-> IdleLookup]

Active(c) == call[c].pc \in {"launching", "fetching", "sleeping"}
Finished(c) == call[c].pc \in {"returned", "thrown"}

FetchRunId_Stale(r) == IF r.fetchCount >= 1 THEN NoRun ELSE r.runId

\* a module-level "current run": the highest run id any call has been given
FetchRunId_Shared(r) ==
    IF r.entry = "startAndWait"
    THEN LET ids == {call[c].flowStart.run_id : c \in Calls} \cup {r.flowStart.run_id}
         IN  CHOOSE m \in ids : \A x \in ids : x <= m
    ELSE r.runId

\* getFlowRunDetails({ authToken, runId, userId, projectId }): the run_id
\* parameter of the status request is the runId the poller was called with
FetchRunId(r) == r.runId

\* the state of a call right after it has issued a status fetch
IssueFetch(r) ==
    [r EXCEPT !.pc = "fetching", !.issuedAt = now, !.fetchCount = @ + 1,
              !.observed = IF r.fetchCount < HistLen THEN @ ELSE <<>>,
              !.reqRunId = FetchRunId(r),
              !.fetchIds = @ \cup {FetchRunId(r)},
              !.inflight = @ + 1]

\* const startTime = Date.now(), a local of this call of the poller
PollStartTime(r) == now

\* pollFlowRunUntilComplete up to its first await: read the clock, fetch
EnterPoll(r, rid) ==
    IssueFetch([r EXCEPT !.startTime = PollStartTime(r), !.enteredAt = now,
                         !.runId = rid, !.slack = 0])

Rethrow_Wrapped(e) == Err("FlowError", e.kind)

\* the catch block of startAndWaitForFlow: log the error and throw it again
Rethrow(e) == e

\* the call ends with a thrown error; inside startAndWaitForFlow the error
\* passes through the catch block on its way to the caller
Throw(r, e) ==
    [r EXCEPT !.pc = "thrown", !.endedAt = now, !.raised = e,
              !.error = IF r.entry = "startAndWait" THEN Rethrow(e) ELSE e]

\* the statuses fetched so far, kept while the call has made at most HistLen
\* fetches and dropped afterwards
Record(r, x) == IF r.fetchCount <= HistLen THEN Append(r.observed, x) ELSE <<>>

\* the deadline check moved in front of the state checks
PollStep_DeadlineFirst(r, rd) ==
    LET seen == [r EXCEPT !.runDetails = rd,
                          !.observed = Record(r, rd.state),
                          !.firstTerminal =
                              IF @ = 0 /\ rd.state \in {"DONE", "FAILED", "TERMINATED"}
                              THEN r.fetchCount ELSE @]
    IN  IF rd.isNull
            THEN Throw([r EXCEPT !.runDetails = rd], Err("TypeError", "null"))
        ELSE IF TimeoutExceeded(now - r.startTime, r.timeoutMs)
            THEN Throw(seen, Err("Timeout", ""))
        ELSE IF IsDone(rd)
            THEN [seen EXCEPT !.pc = "returned", !.endedAt = now,
                              !.returned = [startDetails |-> r.flowStart,
                                            finalResult |-> rd]]
        ELSE IF IsFailedState(rd)
            THEN Throw(seen, Err("RunFailed", rd.state))
        ELSE [seen EXCEPT !.pc = "sleeping", !.issuedAt = now, !.slack = 0,
                          !.timers = @ + 1]

\* the awaited promise has no timer behind it: resolve is never called
PollStep_NoTimer(r, rd) ==
    LET seen == [r EXCEPT !.runDetails = rd,
                          !.observed = Record(r, rd.state),
                          !.firstTerminal =
                              IF @ = 0 /\ rd.state \in {"DONE", "FAILED", "TERMINATED"}
                              THEN r.fetchCount ELSE @]
    IN  IF rd.isNull
            THEN Throw([r EXCEPT !.runDetails = rd], Err("TypeError", "null"))
        ELSE IF IsDone(rd)
            THEN [seen EXCEPT !.pc = "returned", !.endedAt = now,
                              !.returned = [startDetails |-> r.flowStart,
                                            finalResult |-> rd]]
        ELSE IF IsFailedState(rd)
            THEN Throw(seen, Err("RunFailed", rd.state))
        ELSE IF TimeoutExceeded(now - r.startTime, r.timeoutMs)
            THEN Throw(seen, Err("Timeout", ""))
        ELSE [seen EXCEPT !.pc = "sleeping", !.issuedAt = now, !.slack = 0]

\* the timer promise is not awaited: the next fetch goes out at once
PollStep_NoAwait(r, rd) ==
    LET seen == [r EXCEPT !.runDetails = rd,
                          !.observed = Record(r, rd.state),
                          !.firstTerminal =
                              IF @ = 0 /\ rd.state \in {"DONE", "FAILED", "TERMINATED"}
                              THEN r.fetchCount ELSE @]
    IN  IF rd.isNull
            THEN Throw([r EXCEPT !.runDetails = rd], Err("TypeError", "null"))
        ELSE IF IsDone(rd)
            THEN [seen EXCEPT !.pc = "returned", !.endedAt = now,
                              !.returned = [startDetails |-> r.flowStart,
                                            finalResult |-> rd]]
        ELSE IF IsFailedState(rd)
            THEN Throw(seen, Err("RunFailed", rd.state))
        ELSE IF TimeoutExceeded(now - r.startTime, r.timeoutMs)
            THEN Throw(seen, Err("Timeout", ""))
        ELSE IF r.fetchCount < MaxFetches
            THEN IssueFetch([seen EXCEPT !.timers = @ + 1, !.slack = 0])
        ELSE [seen EXCEPT !.pc = "sleeping", !.issuedAt = now, !.slack = 0,
                          !.timers = @ + 1]

\* one pass of the loop body after `await getFlowRunDetails` resolved with rd
PollStep(r, rd) ==
    LET seen == [r EXCEPT !.runDetails = rd,
                          !.observed = Record(r, rd.state),
                          !.firstTerminal =
                              IF @ = 0 /\ rd.state \in {"DONE", "FAILED", "TERMINATED"}
                              THEN r.fetchCount ELSE @]
    IN  IF rd.isNull
            THEN Throw([r EXCEPT !.runDetails = rd], Err("TypeError", "null"))
        ELSE IF IsDone(rd)
            THEN [seen EXCEPT !.pc = "returned", !.endedAt = now,
                              !.returned = [startDetails |-> r.flowStart,
                                            finalResult |-> rd]]
        ELSE IF IsFailedState(rd)
            THEN Throw(seen, Err("RunFailed", rd.state))
        ELSE IF TimeoutExceeded(now - r.startTime, r.timeoutMs)
            THEN Throw(seen, Err("Timeout", ""))
        ELSE [seen EXCEPT !.pc = "sleeping", !.issuedAt = now, !.slack = 0,
                          !.timers = @ + 1]

OnFetchResult_Retry(r, res) ==
    IF res.threw
        THEN [r EXCEPT !.failedFetch = r.fetchCount, !.pc = "sleeping",
                       !.issuedAt = now, !.slack = 0, !.timers = @ + 1]
    ELSE PollStep(r, res.value)

\* the loop at `await getFlowRunDetails(...)`: a rejection leaves the loop and
\* the function, a value goes through the loop body
OnFetchResult(r, res) ==
    IF res.threw
        THEN Throw([r EXCEPT !.failedFetch = r.fetchCount], res.error)
    ELSE PollStep(r, res.value)

OnLaunchResult_Relaunch(r, res) ==
    IF res.threw /\ r.launchCount < 2
        THEN [r EXCEPT !.launchCount = @ + 1, !.inflight = @ + 1, !.issuedAt = now]
    ELSE IF res.threw THEN Throw(r, res.error)
    ELSE IF res.value.isNull
        THEN Throw([r EXCEPT !.flowStart = res.value], Err("TypeError", "null"))
    ELSE EnterPoll([r EXCEPT !.flowStart = res.value], res.value.run_id)

OnLaunchResult_PollAnyway(r, res) ==
    IF res.threw THEN EnterPoll(r, NoRun)
    ELSE IF res.value.isNull
        THEN Throw([r EXCEPT !.flowStart = res.value], Err("TypeError", "null"))
    ELSE EnterPoll([r EXCEPT !.flowStart = res.value], res.value.run_id)

\* startAndWaitForFlow at `await startGumloopFlow(...)`: a rejection goes to
\* the catch block; a value is logged (flowStart.run_id, which throws on a
\* null body) and handed to the poller
OnLaunchResult(r, res) ==
    IF res.threw THEN Throw(r, res.error)
    ELSE IF res.value.isNull
        THEN Throw([r EXCEPT !.flowStart = res.value], Err("TypeError", "null"))
    ELSE EnterPoll([r EXCEPT !.flowStart = res.value], res.value.run_id)

(* ------------------------------- actions ------------------------------- *)
\* a caller invokes pollFlowRunUntilComplete directly
CallPoll(c) ==
    /\ call[c].pc = "idle"
    /\ c \in callers
    /\ \E i \in 0..MaxInterval, t \in 0..MaxTimeout :
          call' = [call EXCEPT ![c] =
                     EnterPoll([@ EXCEPT !.entry = "poll",
                                         !.pollingIntervalMs = i,
                                         !.timeoutMs = t], c)]
    /\ UNCHANGED <<now, nextRun, callers, redis, upload, lookup>>

\* startAndWaitForFlow up to its first await: the start request goes out
StartAndWait(c, i, t) ==
    /\ call[c].pc = "idle"
    /\ c \in callers
    /\ call' = [call EXCEPT ![c] =
                  [@ EXCEPT !.entry = "startAndWait", !.pc = "launching",
                            !.pollingIntervalMs = i, !.timeoutMs = t,
                            !.issuedAt = now, !.launchCount = @ + 1,
                            !.inflight = @ + 1]]
    /\ UNCHANGED <<now, nextRun, callers, redis, upload, lookup>>

\* a caller invokes startAndWaitForFlow
CallStartAndWait(c) ==
    \E i \in 0..MaxInterval, t \in 0..MaxTimeout : StartAndWait(c, i, t)

\* the start request of c is answered with resp
LaunchAnswered(c, resp) ==
    /\ call[c].pc = "launching"
    /\ LET res == startGumloopFlow(resp)
           r == [call[c] EXCEPT !.startResp = resp, !.inflight = @ - 1]
       IN  /\ call' = [call EXCEPT ![c] = OnLaunchResult(r, res)]
           /\ nextRun' = IF resp.net = "reject" THEN nextRun ELSE nextRun + 1
    /\ UNCHANGED <<now, callers, redis, upload, lookup>>

\* the start request is answered
LaunchRespond(c) ==
    \E resp \in StartResponses(nextRun) : LaunchAnswered(c, resp)

\* the status fetch of c is answered with resp
FetchAnswered(c, resp) ==
    /\ call[c].pc = "fetching"
    /\ LET res == getFlowRunDetails(resp)
           r == [call[c] EXCEPT !.slack = @ + (now - call[c].issuedAt),
                                !.lastResp = resp, !.inflight = @ - 1]
       IN  call' = [call EXCEPT ![c] = OnFetchResult(r, res)]
    /\ UNCHANGED <<now, nextRun, callers, redis, upload, lookup>>

\* a status fetch is answered
FetchRespond(c) ==
    \E resp \in StatusResponses(call[c].reqRunId) : FetchAnswered(c, resp)

\* the inter-poll timer fires and the loop issues the next fetch
TimerFire(c) ==
    /\ call[c].pc = "sleeping"
    /\ call[c].timers > 0
    /\ now >= TimerDue(call[c].issuedAt, call[c].pollingIntervalMs)
    /\ call[c].fetchCount < MaxFetches
    /\ call' = [call EXCEPT ![c] =
                  IssueFetch([@ EXCEPT !.timers = @ - 1, !.slack =
                      now - TimerDue(call[c].issuedAt, call[c].pollingIntervalMs)])]
    /\ UNCHANGED <<now, nextRun, callers, redis, upload, lookup>>

\* one millisecond passes
Tick ==
    /\ \E c \in Calls : Active(c)
    /\ \A c \in Calls :
          /\ call[c].pc \in {"launching", "fetching"}
                => now - call[c].issuedAt < MaxLatency
          /\ call[c].pc = "sleeping"
                => now - TimerDue(call[c].issuedAt, call[c].pollingIntervalMs) < MaxJitter
    /\ now' = now + 1
    /\ UNCHANGED <<call, nextRun, callers, redis, upload, lookup>>

Next ==
    \/ \E c \in Calls : CallPoll(c)
    \/ \E c \in Calls : CallStartAndWait(c)
    \/ \E c \in Calls : LaunchRespond(c)
    \/ \E c \in Calls : FetchRespond(c)
    \/ \E c \in Calls : TimerFire(c)
    \/ Tick

Spec == Init /\ [][Next]_vars

(* two callers: calls 1 and 2 of startAndWaitForFlow may overlap in any way *)
InitTwo ==
    /\ now = 0
    /\ call = [c \in Calls |-> IdleCall]
    /\ nextRun = 1
    /\ callers = Calls
    /\ redis = [k \in RedisKeys |-> Nil]
    /\ upload = [u \in Uploads |-> IdleUpload]
    /\ lookup = [g \in Lookups |-> IdleLookup]

ConcurrentIntervals == {1}
ConcurrentTimeouts == {0, 1}

\* one of the two callers invokes startAndWaitForFlow
ConcurrentCall(c) ==
    \E i \in ConcurrentIntervals, t \in ConcurrentTimeouts : StartAndWait(c, i, t)

\* the answers the remote service gives in the two-caller runs
ConcurrentStartResponses(rid) == {HttpFailure("500"), Json(StartBody(rid))}
ConcurrentStatusResponses(rid) ==
    {Rejected} \cup {Json(StatusBody(st, rid)) : st \in {"RUNNING", "DONE", "FAILED"}}

ConcurrentLaunchRespond(c) ==
    \E resp \in ConcurrentStartResponses(nextRun) : LaunchAnswered(c, resp)

ConcurrentFetchRespond(c) ==
    \E resp \in ConcurrentStatusResponses(call[c].reqRunId) : FetchAnswered(c, resp)

NextTwo ==
    \/ \E c \in Calls : ConcurrentCall(c)
    \/ \E c \in Calls : ConcurrentLaunchRespond(c)
    \/ \E c \in Calls : ConcurrentFetchRespond(c)
    \/ \E c \in Calls : TimerFire(c)
    \/ Tick

SpecTwo == InitTwo /\ [][NextTwo]_vars

\* every request is eventually answered, every timer eventually fires and
\* the clock keeps running while a call is in progress
Fairness ==
    /\ WF_vars(Tick)
    /\ \A c \in Calls : WF_vars(LaunchRespond(c))
    /\ \A c \in Calls : WF_vars(FetchRespond(c))
    /\ \A c \in Calls : WF_vars(TimerFire(c))

FairSpec == Spec /\ Fairness

(* --------------------------- the upload routes ------------------------- *)
clientVars == <<now, call, nextRun, callers>>

\* the handler answers: res.status(st).json(...) or res.json(...); the
\* request is over and only its status (and where a write failed) is kept
Respond(r, st) == [IdleUpload EXCEPT !.status = st, !.failedAt = r.failedAt]

\* POST /full-spec: without a body 400 at once, else await dereference
PostFullSpec(u) ==
    /\ upload[u].pc = "idle"
    /\ \/ upload' = [upload EXCEPT ![u] = Respond([IdleUpload EXCEPT !.route = "full-spec"], 400)]
       \/ \E d \in Docs :
             upload' = [upload EXCEPT ![u] =
                          [IdleUpload EXCEPT !.pc = "parsing", !.route = "full-spec", !.doc = d]]
    /\ UNCHANGED <<clientVars, redis, lookup>>

\* POST /full-spec-from-url: without a url 400 at once, else await axios.get
PostFullSpecFromUrl(u) ==
    /\ upload[u].pc = "idle"
    /\ \/ upload' = [upload EXCEPT ![u] = Respond([IdleUpload EXCEPT !.route = "from-url"], 400)]
       \/ upload' = [upload EXCEPT ![u] =
                       [IdleUpload EXCEPT !.pc = "downloading", !.route = "from-url"]]
    /\ UNCHANGED <<clientVars, redis, lookup>>

\* axios.get answers: the request failed or the text is neither JSON nor
\* YAML (400), or a document goes on to dereference
Downloaded(u) ==
    /\ upload[u].pc = "downloading"
    /\ \/ upload' = [upload EXCEPT ![u] = Respond(@, 400)]
       \/ \E d \in Docs :
             upload' = [upload EXCEPT ![u] = [@ EXCEPT !.pc = "parsing", !.doc = d]]
    /\ UNCHANGED <<clientVars, redis, lookup>>

\* SwaggerParser.dereference answers: invalid (400), no paths (200 with an
\* empty list), or storePathsInRedis(api.paths) begins
Dereferenced(u) ==
    /\ upload[u].pc = "parsing"
    /\ \/ upload' = [upload EXCEPT ![u] = Respond(@, 400)]
       \/ /\ ~upload[u].doc.hasPaths
          /\ upload' = [upload EXCEPT ![u] = Respond(@, 200)]
       \/ /\ upload[u].doc.hasPaths
          /\ upload' = [upload EXCEPT ![u] = [@ EXCEPT !.pc = "storing", !.idx = 1]]
    /\ UNCHANGED <<clientVars, redis, lookup>>

\* one `await redisClient.set(...)` of storePathsInRedis is carried out; after
\* the last one the handler answers 200
StoreNext(u) ==
    /\ upload[u].pc = "storing"
    /\ LET w == StoreWrite(u, upload[u].doc.keys, upload[u].idx)
       IN  redis' = [redis EXCEPT ![w.key] = w.value]
    /\ upload' = [upload EXCEPT ![u] =
                    IF upload[u].idx > Len(upload[u].doc.keys)
                    THEN Respond(@, 200)
                    ELSE [@ EXCEPT !.idx = @ + 1]]
    /\ UNCHANGED <<clientVars, lookup>>

\* a redisClient.set rejects: storePathsInRedis rethrows, the handler
\* answers 400 and the writes made so far stay
StoreFails(u) ==
    /\ upload[u].pc = "storing"
    /\ upload' = [upload EXCEPT ![u] = Respond([@ EXCEPT !.failedAt = upload[u].idx], 400)]
    /\ UNCHANGED <<clientVars, redis, lookup>>

NextCache ==
    \/ \E u \in Uploads : PostFullSpec(u)
    \/ \E u \in Uploads : PostFullSpecFromUrl(u)
    \/ \E u \in Uploads : Downloaded(u)
    \/ \E u \in Uploads : Dereferenced(u)
    \/ \E u \in Uploads : StoreNext(u)
    \/ \E u \in Uploads : StoreFails(u)

SpecCache == Init /\ [][NextCache]_vars

(* --------------------------- the lookup route -------------------------- *)
\* GET /paths arrives: path = req.query.path, then await redisClient.get(key)
GetPaths(g) ==
    /\ lookup[g].pc = "idle"
    /\ \E p \in QueryPaths :
          lookup' = [lookup EXCEPT ![g] = [IdleLookup EXCEPT !.pc = "reading", !.path = p]]
    /\ UNCHANGED <<clientVars, redis, upload>>

\* the read answers: without an entry 404, else JSON.parse and the one
\* axios.post to the job processor, which is awaited
CacheRead(g) ==
    /\ lookup[g].pc = "reading"
    /\ LET pathInfo == RedisGet(PathKey(lookup[g].path))
           r == [lookup[g] EXCEPT !.pathInfo = pathInfo, !.cached = pathInfo.present,
                                  !.read = "ok"]
       IN  lookup' = [lookup EXCEPT ![g] =
                        IF Falsy(pathInfo)
                        THEN [r EXCEPT !.pc = "idle", !.status = 404]
                        ELSE [r EXCEPT !.pc = "posting", !.sent = @ + 1,
                                       !.request = FlowStartBody(r.path, pathInfo)]]
    /\ UNCHANGED <<clientVars, redis, upload>>

\* redisClient.get rejects: the catch block answers 500
CacheReadFails(g) ==
    /\ lookup[g].pc = "reading"
    /\ lookup' = [lookup EXCEPT ![g] =
                    [@ EXCEPT !.pc = "idle", !.status = 500, !.read = "failed",
                              !.cached = RedisGet(PathKey(lookup[g].path)).present]]
    /\ UNCHANGED <<clientVars, redis, upload>>

\* the job processor answers 2xx: res.json({ path, pythonResponse })
FlowStartAnswered(g) ==
    /\ lookup[g].pc = "posting"
    /\ lookup' = [lookup EXCEPT ![g] = [@ EXCEPT !.pc = "idle", !.status = 200, !.post = "ok"]]
    /\ UNCHANGED <<clientVars, redis, upload>>

\* axios.post rejects (no connection, or a status outside 2xx): 500
FlowStartFails(g) ==
    /\ lookup[g].pc = "posting"
    /\ lookup' = [lookup EXCEPT ![g] = [@ EXCEPT !.pc = "idle", !.status = 500, !.post = "failed"]]
    /\ UNCHANGED <<clientVars, redis, upload>>

\* lookups running while specifications are uploaded through POST /full-spec
\* (the other upload route stores its paths by the same storePathsInRedis)
NextPaths ==
    \/ \E u \in Uploads : PostFullSpec(u)
    \/ \E u \in Uploads : Dereferenced(u)
    \/ \E u \in Uploads : StoreNext(u)
    \/ \E u \in Uploads : StoreFails(u)
    \/ \E g \in Lookups : GetPaths(g)
    \/ \E g \in Lookups : CacheRead(g)
    \/ \E g \in Lookups : CacheReadFails(g)
    \/ \E g \in Lookups : FlowStartAnswered(g)
    \/ \E g \in Lookups : FlowStartFails(g)

SpecPaths == Init /\ [][NextPaths]_vars

(* ------------------------------ properties ----------------------------- *)
TerminalStates == {"DONE", "FAILED", "TERMINATED"}

\* elapsed time, as the poller measures it, when the call ended
Elapsed(c) == call[c].endedAt - call[c].startTime

\* the most recent status fetch of c was answered with a status object whose
\* state is not terminal, and the loop body has run on it
SawNonTerminal(c) ==
    /\ call[c].pc \in {"sleeping", "returned", "thrown"}
    /\ call[c].fetchCount >= 1
    /\ call[c].failedFetch = 0
    /\ ~call[c].runDetails.isNull
    /\ call[c].runDetails.state \notin TerminalStates

\* every status the call has fetched so far was non-terminal
NeverTerminal(c) ==
    /\ call[c].entry # "none"
    /\ call[c].firstTerminal = 0
    /\ call[c].failedFetch = 0
    /\ ~call[c].runDetails.isNull

\* C1: a call returns a value only when the status it just fetched has state
\* DONE (for startAndWaitForFlow: finalResult.state = DONE); a call that ended
\* in any other way ended with a thrown error and returned nothing.
C1_ReturnsOnlyDone ==
    \A c \in Calls :
        Finished(c) =>
            IF call[c].pc = "returned"
            THEN /\ call[c].runDetails.state = "DONE"
                 /\ call[c].lastResp = Json(call[c].runDetails)
                 /\ call[c].returned.finalResult = call[c].runDetails
                 /\ call[c].returned.finalResult.state = "DONE"
                 /\ call[c].error = NoError
            ELSE /\ call[c].error # NoError
                 /\ call[c].returned = IdleCall.returned

C1_Witness ==
    \E c \in Calls :
        /\ call[c].pc = "returned"
        /\ call[c].entry = "startAndWait"
        /\ call[c].fetchCount >= 2

\* C2: once a fetch has returned FAILED or TERMINATED the call has failed with
\* the run-failed error carrying exactly that state and no fetch follows it;
\* the statuses [RUNNING, FAILED] end in RunFailed(FAILED) after 2 fetches.
C2_RunFailedCarriesState ==
    \A c \in Calls :
        /\ (call[c].firstTerminal # 0 /\ call[c].runDetails.state \in {"FAILED", "TERMINATED"})
              => /\ call[c].pc = "thrown"
                 /\ call[c].error = Err("RunFailed", call[c].runDetails.state)
                 /\ call[c].fetchCount = call[c].firstTerminal
        /\ call[c].observed = <<"RUNNING", "FAILED">>
              => /\ call[c].pc = "thrown"
                 /\ call[c].error = Err("RunFailed", "FAILED")
                 /\ call[c].fetchCount = 2

C2_Witness ==
    \E c \in Calls :
        /\ call[c].observed = <<"RUNNING", "FAILED">>
        /\ call[c].pc = "thrown"
        /\ call[c].fetchCount = 2

\* C3: after a fetch that returned any state other than DONE, FAILED and
\* TERMINATED the call has neither returned nor raised the run-failed error:
\* it is waiting to poll again, or it stopped on the deadline.
C3_OtherStatesNonTerminal ==
    \A c \in Calls :
        SawNonTerminal(c) =>
            /\ call[c].pc # "returned"
            /\ call[c].error.kind # "RunFailed"
            /\ \/ call[c].pc = "sleeping" /\ call[c].error = NoError
               \/ /\ call[c].pc = "thrown"
                  /\ call[c].error = Err("Timeout", "")
                  /\ Elapsed(c) > call[c].timeoutMs

C3_Witness ==
    \E c \in Calls :
        /\ call[c].pc = "sleeping"
        /\ call[c].fetchCount >= 2
        /\ call[c].observed = <<Undefined, "QUEUED">>

\* the PollConfig of c is one the data model allows: both values positive
PositiveConfig(c) == call[c].pollingIntervalMs > 0 /\ call[c].timeoutMs > 0

\* C4: no status fetch other than the first is issued at a moment when the
\* elapsed time since the call began exceeds timeoutMs (stated for a
\* PollConfig of positive values).
C4_NoFetchPastDeadline ==
    \A c \in Calls :
        (PositiveConfig(c) /\ call[c].pc = "fetching" /\ call[c].fetchCount >= 2)
            => call[c].issuedAt - call[c].startTime <= call[c].timeoutMs

\* C5: once a call is polling with a positive interval it eventually ends, and
\* it ends with the DONE status, the run-failed error, an error of the status
\* fetch (a rejected or non-OK request, or a body that cannot be read) or the
\* timeout error.
PollOutcome(c) ==
    \/ call[c].pc = "returned" /\ call[c].runDetails.state = "DONE"
    \/ /\ call[c].pc = "thrown"
       /\ call[c].error.kind \in {"RunFailed", "FetchError", "HttpError", "TypeError", "Timeout"}

C5_PollTerminates ==
    \A c \in Calls :
        (call[c].pc \in {"fetching", "sleeping"} /\ call[c].pollingIntervalMs > 0)
            ~> PollOutcome(c)

C5_Witness ==
    \E c \in Calls :
        /\ call[c].pc = "thrown"
        /\ call[c].error.kind = "Timeout"
        /\ call[c].pollingIntervalMs > 0
        /\ call[c].fetchCount >= 3
        /\ NeverTerminal(c)

\* C6: with timeoutMs = 0 and a run that stays non-terminal the poller issues
\* at most one status fetch, whatever the (positive) interval and the fetch
\* latency.
C6_ZeroTimeoutOneFetch ==
    \A c \in Calls :
        (call[c].timeoutMs = 0 /\ call[c].pollingIntervalMs > 0 /\ NeverTerminal(c))
            => call[c].fetchCount <= 1

\* C7: with intervalMs >= timeoutMs and a run that stays non-terminal the
\* poller performs at most one status fetch before it times out (stated for
\* a PollConfig of positive values).
C7_IntervalNotBelowTimeout ==
    \A c \in Calls :
        (/\ PositiveConfig(c)
         /\ call[c].pollingIntervalMs >= call[c].timeoutMs
         /\ NeverTerminal(c))
            => call[c].fetchCount <= 1

\* C8: when the first terminal status arrives on the k-th fetch the call has
\* ended with exactly k fetches, at least (k-1)*intervalMs after it began, and
\* for DONE it returned that k-th status; a call that ended without a terminal
\* status ended on the deadline or on a failed fetch.  [PENDING, RUNNING, DONE]
\* gives exactly 3 fetches and at least two intervals of elapsed time.
C8_ExactlyKFetches ==
    \A c \in Calls :
        /\ call[c].firstTerminal # 0
              => /\ Finished(c)
                 /\ call[c].fetchCount = call[c].firstTerminal
                 /\ Elapsed(c) >= (call[c].fetchCount - 1) * call[c].pollingIntervalMs
                 /\ call[c].runDetails.state = "DONE"
                       => /\ call[c].pc = "returned"
                          /\ call[c].returned.finalResult = call[c].lastResp.body
        /\ (Finished(c) /\ call[c].fetchCount >= 1 /\ call[c].firstTerminal = 0)
              => /\ call[c].pc = "thrown"
                 /\ call[c].error.kind = "Timeout" => Elapsed(c) > call[c].timeoutMs
                 /\ call[c].error.kind \in {"Timeout", "FetchError", "HttpError", "TypeError"}
        /\ call[c].observed = <<"PENDING", "RUNNING", "DONE">>
              => /\ call[c].pc = "returned"
                 /\ call[c].fetchCount = 3
                 /\ Elapsed(c) >= 2 * call[c].pollingIntervalMs

C8_Witness ==
    \E c \in Calls :
        /\ call[c].observed = <<"PENDING", "RUNNING", "DONE">>
        /\ call[c].pc = "returned"
        /\ call[c].pollingIntervalMs = MaxInterval
        /\ call[c].fetchCount = 3

\* C9: the timeout error is never raised while elapsed <= timeoutMs, and when
\* the last wait-and-fetch cycle ran at most intervalMs late (timer lateness
\* plus fetch latency) it is raised no later than timeoutMs + 2*intervalMs.
C9_TimeoutWindow ==
    \A c \in Calls :
        (call[c].pc = "thrown" /\ call[c].error.kind = "Timeout")
            => /\ Elapsed(c) > call[c].timeoutMs
               /\ call[c].slack <= call[c].pollingIntervalMs
                     => Elapsed(c) <= call[c].timeoutMs + 2 * call[c].pollingIntervalMs

C9_Witness ==
    \E c \in Calls :
        /\ call[c].pc = "thrown"
        /\ call[c].error.kind = "Timeout"
        /\ call[c].slack = 0
        /\ call[c].pollingIntervalMs = 1
        /\ call[c].timeoutMs = MaxTimeout
        /\ Elapsed(c) = call[c].timeoutMs + 1

\* C10: when a status fetch fails (rejected request, non-OK status, unreadable
\* body) the call has failed with exactly the error of that fetch and no
\* status fetch was issued after the failed one.
C10_FetchFailureIsFinal ==
    \A c \in Calls :
        call[c].failedFetch # 0
            => /\ call[c].pc = "thrown"
               /\ getFlowRunDetails(call[c].lastResp).threw
               /\ call[c].error = getFlowRunDetails(call[c].lastResp).error
               /\ call[c].error.kind \in {"FetchError", "HttpError"}
               /\ call[c].fetchCount = call[c].failedFetch

C10_Witness ==
    \E c \in Calls :
        /\ call[c].failedFetch = 2
        /\ call[c].pc = "thrown"
        /\ call[c].lastResp = Rejected
        /\ call[c].entry = "startAndWait"

\* the start request of c was answered with an OK status and a JSON object
LaunchSucceeded(c) ==
    /\ call[c].startResp.net = "ok"
    /\ ResponseOk(call[c].startResp)
    /\ call[c].startResp.json
    /\ ~call[c].startResp.body.isNull

\* the start request of c failed: rejected, non-OK status or unreadable body
LaunchFailed(c) ==
    /\ call[c].startResp # NoResp
    /\ startGumloopFlow(call[c].startResp).threw

\* C11: a call of startAndWaitForFlow has issued exactly one start request,
\* no status fetch is issued before the start request was answered, and once
\* the launch has succeeded at least one status fetch has been issued.
C11_OneLaunchThenFetches ==
    \A c \in Calls :
        call[c].entry = "startAndWait" =>
            /\ call[c].launchCount = 1
            /\ call[c].fetchCount >= 1 => (call[c].pc # "launching" /\ LaunchSucceeded(c))
            /\ call[c].pc = "launching" => (call[c].fetchCount = 0 /\ call[c].startResp = NoResp)
            /\ LaunchSucceeded(c) => call[c].fetchCount >= 1

C11_Witness ==
    \E c \in Calls :
        /\ call[c].entry = "startAndWait"
        /\ LaunchSucceeded(c)
        /\ call[c].launchCount = 1
        /\ call[c].fetchCount = 3
        /\ Finished(c)

\* C12: when the start request fails (rejected or non-OK status) the call has
\* ended with exactly the error of the launch, after one start request and
\* without any status fetch.
C12_LaunchFailureAborts ==
    \A c \in Calls :
        LaunchFailed(c) =>
            /\ call[c].pc = "thrown"
            /\ call[c].error = startGumloopFlow(call[c].startResp).error
            /\ call[c].error.kind \in {"FetchError", "HttpError"}
            /\ call[c].launchCount = 1
            /\ call[c].fetchCount = 0
            /\ call[c].inflight = 0

C12_Witness ==
    \E c \in Calls :
        /\ call[c].startResp = HttpFailure("500")
        /\ call[c].pc = "thrown"
        /\ call[c].error = Err("HttpError", "500")

\* C13: a start response with an OK status and a body without a run id makes
\* the launch fail, and every status fetch of startAndWaitForFlow carries a
\* run id that the launch response supplied.
C13_NoRunIdIsLaunchError ==
    \A c \in Calls :
        call[c].entry = "startAndWait" =>
            /\ (LaunchSucceeded(c) /\ call[c].startResp.body.run_id = NoRun)
                  => (call[c].pc = "thrown" /\ call[c].fetchCount = 0)
            /\ \A id \in call[c].fetchIds : id # NoRun

\* C14: within a call of startAndWaitForFlow there is one launch and one run
\* handle, and every status fetch issued so far carries the run_id of the
\* launch response of that call.
C14_SameRunIdEveryFetch ==
    \A c \in Calls :
        (call[c].entry = "startAndWait" /\ call[c].fetchCount >= 1) =>
            /\ call[c].launchCount = 1
            /\ call[c].flowStart = call[c].startResp.body
            /\ call[c].runId = call[c].startResp.body.run_id
            /\ call[c].fetchIds = {call[c].startResp.body.run_id}
            /\ call[c].reqRunId = call[c].startResp.body.run_id

C14_Witness ==
    \E c \in Calls :
        /\ call[c].entry = "startAndWait"
        /\ call[c].fetchCount = 4
        /\ call[c].startResp.body.run_id # NoRun
        /\ call[c].fetchIds = {call[c].startResp.body.run_id}

\* C15: with two calls of startAndWaitForFlow overlapping in any way, each
\* call fetches only the run id of its own launch response, no run id is
\* fetched by both, each deadline is measured from the moment its own poller
\* was entered, and each result holds the call's own launch response and the
\* DONE status of its own run.
C15_NoInterference ==
    \A c \in Calls :
        call[c].entry = "startAndWait" =>
            /\ call[c].fetchIds \subseteq {call[c].startResp.body.run_id}
            /\ \A d \in Calls \ {c} : call[c].fetchIds \cap call[d].fetchIds = {}
            /\ call[c].fetchCount >= 1 => call[c].startTime = call[c].enteredAt
            /\ call[c].pc = "sleeping"
                  => call[c].issuedAt - call[c].enteredAt <= call[c].timeoutMs
            /\ (call[c].pc = "thrown" /\ call[c].error.kind = "Timeout")
                  => call[c].endedAt - call[c].enteredAt > call[c].timeoutMs
            /\ call[c].pc = "returned"
                  => /\ call[c].returned.startDetails = call[c].startResp.body
                     /\ call[c].returned.finalResult = call[c].lastResp.body
                     /\ call[c].returned.finalResult.run_id = call[c].startResp.body.run_id
                     /\ call[c].returned.finalResult.state = "DONE"

C15_Witness ==
    /\ call[1].pc = "returned" /\ call[2].pc = "returned"
    /\ call[1].fetchCount >= 2 /\ call[2].fetchCount >= 2
    /\ call[1].returned.startDetails.run_id = 2
    /\ call[2].returned.startDetails.run_id = 1
    /\ call[1].enteredAt < call[2].endedAt
    /\ call[2].enteredAt < call[1].endedAt
    /\ call[1].enteredAt # call[2].enteredAt

\* C16: a call of startAndWaitForFlow that failed hands its caller the very
\* error that was raised by the launcher or the poller and no result, has no
\* request in flight and no timer pending, and never does anything again:
\* no cancel request, no second launch, no further fetch.
C16_FailureIsVerbatimAndFinal ==
    /\ [](\A c \in Calls :
             (call[c].entry = "startAndWait" /\ call[c].pc = "thrown") =>
                 /\ call[c].raised # NoError
                 /\ call[c].error = call[c].raised
                 /\ call[c].returned = IdleCall.returned
                 /\ call[c].inflight = 0
                 /\ call[c].timers = 0)
    /\ [][\A c \in Calls : call[c].pc = "thrown" => call'[c] = call[c]]_vars

C16_Witness ==
    \E c \in Calls :
        /\ call[c].entry = "startAndWait"
        /\ call[c].pc = "thrown"
        /\ call[c].raised = Err("RunFailed", "TERMINATED")
        /\ call[c].error = call[c].raised
        /\ call[c].fetchCount = 2

\* the start response of c is well formed: OK, a JSON object with a run id
WellFormedLaunch(c) == LaunchSucceeded(c) /\ call[c].startResp.body.run_id # NoRun

\* C17: a call issues exactly one start request; after a well-formed success
\* response the handle it holds is that response, with the run id of that
\* response, and the result of startAndWaitForFlow has startDetails equal to
\* the launch response.
C17_HandleIsLaunchResponse ==
    \A c \in Calls :
        call[c].entry = "startAndWait" =>
            /\ call[c].launchCount = 1
            /\ WellFormedLaunch(c)
                  => /\ call[c].flowStart = call[c].startResp.body
                     /\ call[c].flowStart.run_id = call[c].startResp.body.run_id
                     /\ call[c].runId = call[c].startResp.body.run_id
            /\ call[c].pc = "returned"
                  => call[c].returned.startDetails = call[c].startResp.body

C17_Witness ==
    \E c \in Calls :
        /\ call[c].pc = "returned"
        /\ WellFormedLaunch(c)
        /\ call[c].returned.startDetails = StartBody(1)
        /\ call[c].fetchCount = 1

\* the loop body of c has run on a status object: the last fetch was answered
\* with a JSON object and the call has moved on from it
Processed(c) ==
    /\ call[c].pc \in {"sleeping", "returned", "thrown"}
    /\ call[c].fetchCount >= 1
    /\ call[c].failedFetch = 0
    /\ ~call[c].lastResp.body.isNull

\* C18: the timeout error is raised only on a non-terminal status; a fetch
\* that returned DONE gives success and one that returned FAILED or
\* TERMINATED gives the run-failed error, whatever the elapsed time.
C18_TimeoutOnlyOnNonTerminal ==
    \A c \in Calls :
        /\ (call[c].pc = "thrown" /\ call[c].error.kind = "Timeout")
              => /\ call[c].lastResp = Json(call[c].runDetails)
                 /\ call[c].runDetails.state \notin TerminalStates
        /\ (Processed(c) /\ call[c].lastResp.body.state = "DONE")
              => call[c].pc = "returned"
        /\ (Processed(c) /\ call[c].lastResp.body.state \in {"FAILED", "TERMINATED"})
              => (call[c].pc = "thrown" /\ call[c].error.kind = "RunFailed")

C18_Witness ==
    \E c \in Calls :
        /\ call[c].pc = "returned"
        /\ call[c].fetchCount >= 2
        /\ Elapsed(c) > call[c].timeoutMs

\* C19: a call has at most one request in flight, never a request in flight
\* together with a pending inter-poll timer, and a status fetch other than
\* the first goes out only when the timer of the preceding wait has fired,
\* at or after its due time.
C19_OneThingAtATime ==
    \A c \in Calls :
        /\ call[c].inflight \in {0, 1}
        /\ call[c].timers \in {0, 1}
        /\ call[c].inflight + call[c].timers <= 1
        /\ call[c].pc \in {"launching", "fetching"} <=> call[c].inflight = 1
        /\ call[c].pc = "sleeping" <=> call[c].timers = 1
        /\ call[c].pc = "launching" => call[c].fetchCount = 0
        /\ call[c].pc = "fetching" => call[c].slack >= 0

C19_Witness ==
    \E c \in Calls :
        /\ call[c].entry = "startAndWait"
        /\ call[c].pc = "fetching"
        /\ call[c].fetchCount = 3
        /\ call[c].inflight = 1
        /\ call[c].timers = 0

\* the elements of a sequence
Range(q) == {q[i] : i \in 1..Len(q)}

\* C20: under any interleaving of uploads, failed ones included, every path
\* listed in the 'all_paths' entry of the cache has a stored 'path:<path>'
\* entry.
C20_IndexedPathsAreStored ==
    redis[IndexKey].present =>
        \A p \in Range(redis[IndexKey].list) : redis[PathKey(p)].present

C20_Witness ==
    /\ redis[IndexKey] = IndexValue(<<"/a">>)
    /\ redis[PathKey("/a")] = PathValue(1)
    /\ redis[PathKey("/b")] = PathValue(2)
    /\ upload[2].status = 400
    /\ upload[2].failedAt = 2

\* the GET /paths request g has been answered
Answered(g) == lookup[g].pc = "idle" /\ lookup[g].status # 0

\* the one pipeline input of the downstream request of g is the JSON text of
\* an object with the path of the request and, as an object and not as a
\* quoted string, the entry that was read from the cache
CarriesPathAndData(g) ==
    /\ lookup[g].request.flowType = "single-tool-raw"
    /\ Len(lookup[g].request.pipelineInputs) = 1
    /\ lookup[g].request.pipelineInputs[1].input_name = "input"
    /\ lookup[g].request.pipelineInputs[1].value.hasPath
    /\ lookup[g].request.pipelineInputs[1].value.path = lookup[g].path
    /\ lookup[g].request.pipelineInputs[1].value.data =
          [quoted |-> FALSE, text |-> lookup[g].pathInfo]

\* C21 as stated: an answered GET /paths for a path without a cached entry was
\* answered 404 and sent no downstream request; one for a cached path sent
\* exactly one downstream request carrying the path and its cached data and
\* was answered 500 if that request failed.
C21_LookupAsStated ==
    \A g \in Lookups :
        Answered(g) =>
            IF ~lookup[g].cached
            THEN lookup[g].status = 404 /\ lookup[g].sent = 0
            ELSE /\ lookup[g].sent = 1
                 /\ CarriesPathAndData(g)
                 /\ lookup[g].post = "failed" => lookup[g].status = 500

\* C21 (amended): when the cache read succeeds, GET /paths for a path without
\* a cached entry is answered 404 with no downstream request, and for a
\* cached path exactly one downstream request is sent, carrying the path and
\* the entry as read, and the answer is 500 if that request fails; when the
\* cache read itself fails the answer is 500 and no downstream request is
\* sent.  No step of the handler changes the cache, and the entry it uses is
\* the one stored under 'path:<path>' at the moment of the read.
C21_LookupOutcome ==
    /\ [](\A g \in Lookups :
             /\ lookup[g].sent \in {0, 1}
             /\ (lookup[g].read = "ok" /\ ~lookup[g].cached)
                   => /\ Answered(g)
                      /\ lookup[g].status = 404
                      /\ lookup[g].sent = 0
                      /\ lookup[g].request = NoRequest
             /\ (lookup[g].read = "ok" /\ lookup[g].cached)
                   => /\ lookup[g].sent = 1
                      /\ CarriesPathAndData(g)
                      /\ lookup[g].status \in {0, 200, 500}
                      /\ lookup[g].post = "failed" => lookup[g].status = 500
                      /\ lookup[g].status = 500 => lookup[g].post = "failed"
             /\ lookup[g].read = "failed"
                   => /\ Answered(g)
                      /\ lookup[g].status = 500
                      /\ lookup[g].sent = 0
             /\ lookup[g].status = 404 => (lookup[g].read = "ok" /\ ~lookup[g].cached)
             /\ lookup[g].sent = 1 => (lookup[g].read = "ok" /\ lookup[g].cached))
    /\ [][\A g \in Lookups :
             lookup'[g] # lookup[g] =>
                 /\ redis' = redis
                 /\ (lookup[g].pc = "reading" /\ lookup'[g].read = "ok")
                       => lookup'[g].pathInfo = RedisGet(PathKey(lookup[g].path))]_vars

C21_Witness ==
    \E g \in Lookups :
        /\ Answered(g)
        /\ lookup[g].path = "/a"
        /\ lookup[g].read = "ok"
        /\ lookup[g].pathInfo = PathValue(2)
        /\ lookup[g].sent = 1
        /\ lookup[g].post = "failed"
        /\ lookup[g].status = 500
        /\ redis[PathKey("/a")] = PathValue(1)

====
